---- MODULE Spec2Model ----
(***************************************************************************)
(* POLoMapModule.forward (src/mapping/polo/polo_map_module.py): the        *)
(* per-step update of the probabilistic local map.                         *)
(*                                                                         *)
(* Numbers are fixed point.  A [0,1] channel, a detection score, a         *)
(* relevance weight and a probability are counted in tenths (Unit = 1.0).  *)
(* Log-odds are counted in hundredths (LogOddsMax = 10.0).  Inf is the     *)
(* float +inf that marks an unassigned voxel cell.                         *)
(*                                                                         *)
(* Indices are 0-based as in the source: batch element e, pixel p,         *)
(* detection i, class k, map row r and column c, height bin z.             *)
(*                                                                         *)
(* The geometry is a scaled-down configuration: a local map of             *)
(* local_map_size x local_map_size cells, an egocentric grid of            *)
(* vision_range x vision_range columns, a frame of NumPix pixels after     *)
(* downscaling (du_scale = 1, so the pooling of lines 288, 300 and 371 is  *)
(* the identity).  The point cloud of a frame is the output of the         *)
(* external projector and splatter: one voxel per pixel.  Poses lie on     *)
(* cell centres with heading 90 degrees, for which the two resampling      *)
(* passes of lines 518-520 are a whole-cell shift with zero padding.       *)
(***************************************************************************)
EXTENDS Integers, Sequences, FiniteSets, TLC

\* ------------------------------------------------------------ fixed point
Unit == 10
LogOddsMax == 1000
Inf == 1000000

\* ------------------------------------------------------------ bounds
MaxSteps == 2

\* ------------------------------------------------------------ configuration
local_map_size == 8
vision_range == 4
close_range == 2
num_sem_categories == 2
NumPix == 3
\* height bins: max_voxel_height - min_voxel_height of them
NumBins == 3
max_depth == 5
min_mapped_height == 0
filtered_min_height == 1
max_mapped_height == 2
map_pred_threshold == 1
exp_pred_threshold == 2
cat_pred_threshold == 2
dilate_size == 3
probability_prior == 2
confirm_detection_threashold == 5
LocRadius == 2

\* ------------------------------------------------------------ channel layout
OBSTACLE_MAP == 0
EXPLORED_MAP == 1
BEEN_CLOSE_MAP == 2
CURRENT_LOCATION == 3
PROBABILITY_MAP == 4
VOXEL_START == 5
NON_SEM_CHANNELS == VOXEL_START + max_mapped_height

\* the voxel <<row, col, bin>> of the camera itself
Origin == <<0, vision_range \div 2, max_mapped_height>>

Chans == 0 .. (NON_SEM_CHANNELS + num_sem_categories - 1)
Rows == 0 .. (local_map_size - 1)
Cells == Rows \X Rows
Ego == 0 .. (vision_range - 1)
Bins == 0 .. (NumBins - 1)
Pixels == 0 .. (NumPix - 1)
Classes == 0 .. (num_sem_categories - 1)
VoxChans == VOXEL_START .. (NON_SEM_CHANNELS - 1)
SemChans == NON_SEM_CHANNELS .. (NON_SEM_CHANNELS + num_sem_categories - 1)

\* ------------------------------------------------------------ arithmetic
Max2(a, b) == IF a >= b THEN a ELSE b
Min2(a, b) == IF a <= b THEN a ELSE b
Clamp(x, lo, hi) == Max2(lo, Min2(x, hi))

RECURSIVE SumOver(_, _)
SumOver(S, f) ==
    IF S = {} THEN 0
    ELSE LET x == CHOOSE y \in S : TRUE IN f[x] + SumOver(S \ {x}, f)

RECURSIVE MaxOver(_, _, _)
MaxOver(S, f, least) ==
    IF S = {} THEN least
    ELSE LET x == CHOOSE y \in S : TRUE IN Max2(f[x], MaxOver(S \ {x}, f, least))

\* torch.logit(p, eps=1e-6): p is clamped to [eps, 1 - eps], then ln(p / (1 - p)).
\* p in tenths, the result in hundredths.
Logit(p) ==
    CASE p <= 0 -> -1382
      [] p = 1 -> -220
      [] p = 2 -> -139
      [] p = 3 -> -85
      [] p = 4 -> -41
      [] p = 5 -> 0
      [] p = 6 -> 41
      [] p = 7 -> 85
      [] p = 8 -> 139
      [] p = 9 -> 220
      [] OTHER -> 1382

prior_logit == Logit(probability_prior)

IsInf(v) == v = Inf

\* ------------------------------------------------------------ feature assembly
\* inp = [B, obs, pose_delta, det, lmb]; det = [none, N, scores, classes, masks,
\* relevance]; obs[e] = [vox, sem]: the voxel <<row, col, bin>> each pixel's point
\* lands in, and the pixel's semantic scores.
Batch(inp) == 0 .. (inp.B - 1)
Dets(inp) == 0 .. (inp.det.N - 1)

\* mutant: every batch element scored with element 0's detections
score_relevence_first(inp, e, i) ==
    (inp.det.scores[0][i] * inp.det.relevance[inp.det.classes[0][i]]) \div Unit

score_relevence(inp, e, i) ==
    (inp.det.scores[e][i] * inp.det.relevance[inp.det.classes[e][i]]) \div Unit

prob_feat(inp, e, p) ==
    IF inp.det.none \/ inp.det.N = 0 THEN 0
    ELSE MaxOver(Dets(inp),
                 [i \in Dets(inp) |->
                     IF p \in inp.det.masks[e][i] THEN score_relevence(inp, e, i) ELSE 0],
                 -Inf)

\* line 346 reads num_detected_instance, which only line 282 binds
Raises(inp) == inp.det.none

\* mutant: a detection at the threshold counts as confirmed
detect_idx_at_least(inp) ==
    IF inp.det.none \/ inp.det.N = 0 THEN {}
    ELSE {i \in Dets(inp) : inp.det.scores[0][i] >= confirm_detection_threashold}

detect_idx(inp) ==
    IF inp.det.none \/ inp.det.N = 0 THEN {}
    ELSE {i \in Dets(inp) : inp.det.scores[0][i] > confirm_detection_threashold}

num_detected_instance(inp) == Cardinality(detect_idx(inp))

\* the confirmed detections in index order: scores[0][detect_idx]
RECURSIVE Ascending(_)
Ascending(S) ==
    IF S = {} THEN <<>>
    ELSE LET m == CHOOSE x \in S : \A y \in S : x <= y IN <<m>> \o Ascending(S \ {m})

detected(inp) == Ascending(detect_idx(inp))
detected_instances_scores(inp, j) == inp.det.scores[0][detected(inp)[j + 1]]
detected_instances_classes(inp, j) == inp.det.classes[0][detected(inp)[j + 1]]
detected_instances_masks(inp, j) == inp.det.masks[0][detected(inp)[j + 1]]

\* ------------------------------------------------------------ voxel splat
\* depth = obs[:, 3].float(); depth[depth > self.max_depth] = 0
depth(inp, e, p) ==
    IF inp.obs[e].depth[p] > max_depth THEN 0 ELSE inp.obs[e].depth[p]

\* the caller's obs buffer after the call: .float() of a float32 tensor is the tensor
\* itself, so the assignment of line 232 writes through to obs; of any other dtype
\* it is a copy
obs_after(inp, e) ==
    IF inp.obs[e].dtype = "float32"
    THEN [inp.obs[e] EXCEPT !.depth = [p \in Pixels |-> depth(inp, e, p)]]
    ELSE inp.obs[e]

\* the voxel the point of pixel p lands in: a pixel of depth 0 gives the point at
\* the camera, in row 0 straight ahead, above max_mapped_height
point(inp, e, p) == IF depth(inp, e, p) = 0 THEN Origin ELSE inp.obs[e].vox[p]

PixAt(inp, e, v) == {p \in Pixels : point(inp, e, p) = v}

vox_count(inp, e, v) == Cardinality(PixAt(inp, e, v))
vox_sem(inp, e, k, v) ==
    SumOver(PixAt(inp, e, v), [p \in Pixels |-> inp.obs[e].sem[p][k]])
vox_prob(inp, e, v) ==
    SumOver(PixAt(inp, e, v), [p \in Pixels |-> prob_feat(inp, e, p)])
\* the instance channels of every batch element carry element 0's masks
vox_inst(inp, e, j, v) ==
    Cardinality(PixAt(inp, e, v) \cap detected_instances_masks(inp, j))

\* ------------------------------------------------------------ column projection
all_height_proj(inp, e, row, col) ==
    SumOver(Bins, [z \in Bins |-> vox_count(inp, e, <<row, col, z>>)])

FilteredBins == {z \in Bins : filtered_min_height <= z /\ z < max_mapped_height}
AgentBins == {z \in Bins : min_mapped_height <= z /\ z < max_mapped_height}
MappedBins == {z \in Bins : z < max_mapped_height}

agent_height_proj(inp, e, row, col) ==
    SumOver(AgentBins, [z \in Bins |-> vox_count(inp, e, <<row, col, z>>)])

filtered_sem(inp, e, k, row, col) ==
    SumOver(FilteredBins, [z \in Bins |-> vox_sem(inp, e, k, <<row, col, z>>)])

filtered_inst(inp, e, j, row, col) ==
    SumOver(FilteredBins, [z \in Bins |-> vox_inst(inp, e, j, <<row, col, z>>)])

fp_map_pred(inp, e, row, col) ==
    (agent_height_proj(inp, e, row, col) * Unit) \div map_pred_threshold

fp_exp_pred(inp, e, row, col) ==
    (all_height_proj(inp, e, row, col) * Unit) \div exp_pred_threshold

close_exp(inp, e, row, col) ==
    IF row >= close_range THEN 0 ELSE fp_exp_pred(inp, e, row, col)

prob_map(inp, e, row, col) ==
    MaxOver(FilteredBins, [z \in Bins |-> vox_prob(inp, e, <<row, col, z>>)], -Inf)

prob_logit(inp, e, row, col) ==
    IF fp_exp_pred(inp, e, row, col) = 0 THEN 0
    ELSE Clamp(Logit(prob_map(inp, e, row, col)) - prior_logit, -LogOddsMax, LogOddsMax)

\* conv2d with a kernel of ones, padding dilate_size // 2, then clamp(0, 1)
dilated(inp, e, row, col) ==
    LET h == dilate_size \div 2
        near == {n \in Ego \X Ego :
                    /\ n[1] >= row - h /\ n[1] <= row + h
                    /\ n[2] >= col - h /\ n[2] <= col + h}
    IN Clamp(SumOver(near, [n \in Ego \X Ego |-> fp_map_pred(inp, e, n[1], n[2])]),
             0, Unit)

\* ------------------------------------------------------------ agent view
view_x1 == local_map_size \div 2 - vision_range \div 2
view_y1 == local_map_size \div 2

InView(r, c) ==
    /\ view_y1 <= r /\ r < view_y1 + vision_range
    /\ view_x1 <= c /\ c < view_x1 + vision_range

\* channel ch of the egocentric column <<row, col>>
ego_channel(inp, e, ch, row, col) ==
    CASE ch = OBSTACLE_MAP -> dilated(inp, e, row, col)
      [] ch = EXPLORED_MAP -> fp_exp_pred(inp, e, row, col)
      [] ch = BEEN_CLOSE_MAP -> close_exp(inp, e, row, col)
      [] ch = PROBABILITY_MAP -> prob_logit(inp, e, row, col)
      [] ch \in VoxChans -> vox_prob(inp, e, <<row, col, ch - VOXEL_START>>)
      [] ch \in SemChans ->
            filtered_sem(inp, e, ch - NON_SEM_CHANNELS, row, col) \div cat_pred_threshold
      [] OTHER -> 0

agent_view(inp, e, ch, r, c) ==
    IF InView(r, c) THEN ego_channel(inp, e, ch, r - view_y1, c - view_x1) ELSE 0

occupaid_voxel(inp, e, z, r, c) ==
    IF InView(r, c) THEN vox_count(inp, e, <<r - view_y1, c - view_x1, z>>) ELSE 0

instances(inp, e, j, r, c) ==
    IF InView(r, c) THEN filtered_inst(inp, e, j, r - view_y1, c - view_x1) ELSE 0

\* ------------------------------------------------------------ egomotion warp
\* pu.get_new_pose_batch at heading 90 degrees: forward motion dx moves along the
\* rows (y), lateral motion dy against the columns (x).  pose = <<x, y>> in cells.
get_new_pose(pose, delta) == <<pose[1] - delta[2], pose[2] + delta[1]>>

\* the map cell <<r, c>> samples the canvas cell shifted back by the offset of the
\* pose from the canvas centre; outside the canvas grid_sample pads with zeros
src_r(pose, r) == r - (pose[2] - local_map_size \div 2)
src_c(pose, c) == c - (pose[1] - local_map_size \div 2)
OnCanvas(pose, r, c) == src_r(pose, r) \in Rows /\ src_c(pose, c) \in Rows

warped(inp, e, pose, ch, r, c) ==
    IF OnCanvas(pose, r, c)
    THEN agent_view(inp, e, ch, src_r(pose, r), src_c(pose, c)) ELSE 0

occupaid_voxel_st(inp, e, pose, z, r, c) ==
    IF OnCanvas(pose, r, c)
    THEN occupaid_voxel(inp, e, z, src_r(pose, r), src_c(pose, c)) ELSE 0

instances_st(inp, e, pose, j, r, c) ==
    IF OnCanvas(pose, r, c)
    THEN instances(inp, e, j, src_r(pose, r), src_c(pose, c)) ELSE 0

idx_no_prob == (0 .. (PROBABILITY_MAP - 1)) \cup SemChans

\* mutant: the clamp of line 565 left out
translated_unclamped(inp, e, pose, ch, r, c) == warped(inp, e, pose, ch, r, c)

\* translated after the clamp of line 565
translated(inp, e, pose, ch, r, c) ==
    IF ch \in idx_no_prob
    THEN Clamp(warped(inp, e, pose, ch, r, c), 0, Unit)
    ELSE warped(inp, e, pose, ch, r, c)

\* ------------------------------------------------------------ Bayesian fuser
\* mutant: the warped map overwrites the previous one
max_fused_overwrite(inp, e, pose, prev, ch, r, c) == translated(inp, e, pose, ch, r, c)

\* torch.max over (prev_map, translated), lines 567-570
max_fused(inp, e, pose, prev, ch, r, c) ==
    Max2(prev[ch][r][c], translated(inp, e, pose, ch, r, c))

confident_no_obj(inp, e, pose, prev, r, c) ==
    max_fused(inp, e, pose, prev, BEEN_CLOSE_MAP, r, c) = Unit

\* mutant: the clamp of line 574 left out
prob_fused_unclamped(inp, e, pose, prev, r, c) ==
    IF confident_no_obj(inp, e, pose, prev, r, c) THEN -LogOddsMax
    ELSE prev[PROBABILITY_MAP][r][c] + translated(inp, e, pose, PROBABILITY_MAP, r, c)

prob_fused(inp, e, pose, prev, r, c) ==
    IF confident_no_obj(inp, e, pose, prev, r, c) THEN -LogOddsMax
    ELSE Clamp(prev[PROBABILITY_MAP][r][c]
                 + translated(inp, e, pose, PROBABILITY_MAP, r, c),
               -LogOddsMax, LogOddsMax)

\* ------------------------------------------------------------ voxel update
\* occupaid_voxel_st > 0.5
is_occupaid(inp, e, pose, z, r, c) == 2 * occupaid_voxel_st(inp, e, pose, z, r, c) > 1

voxel_logit(inp, e, pose, z, r, c) == Logit(translated(inp, e, pose, VOXEL_START + z, r, c))

\* mutant: the override of line 644 without the is_post_occupaid mask
updated_override_all(inp, e, pose, prev, z, r, c) ==
    LET old == prev[VOXEL_START + z][r][c]
        occ == is_occupaid(inp, e, pose, z, r, c)
        u == IF occ /\ IsInf(old) THEN voxel_logit(inp, e, pose, z, r, c)
             ELSE IF occ THEN old + voxel_logit(inp, e, pose, z, r, c) - prior_logit
                  ELSE old
    IN IF confident_no_obj(inp, e, pose, prev, r, c) THEN -LogOddsMax
       ELSE IF IsInf(u) THEN u ELSE Clamp(u, -LogOddsMax, LogOddsMax)

\* mutant: case 1 subtracts the prior logit as case 2 does
updated_prior_relative(inp, e, pose, prev, z, r, c) ==
    LET old == prev[VOXEL_START + z][r][c]
        occ == is_occupaid(inp, e, pose, z, r, c)
        u == IF occ /\ IsInf(old) THEN voxel_logit(inp, e, pose, z, r, c) - prior_logit
             ELSE IF occ THEN old + voxel_logit(inp, e, pose, z, r, c) - prior_logit
                  ELSE old
    IN IF confident_no_obj(inp, e, pose, prev, r, c) /\ ~IsInf(u) THEN -LogOddsMax
       ELSE IF IsInf(u) THEN u ELSE Clamp(u, -LogOddsMax, LogOddsMax)

\* mutant: case 2 adds the logit without subtracting the prior logit
updated_accumulate_raw(inp, e, pose, prev, z, r, c) ==
    LET old == prev[VOXEL_START + z][r][c]
        occ == is_occupaid(inp, e, pose, z, r, c)
        u == IF occ /\ IsInf(old) THEN voxel_logit(inp, e, pose, z, r, c)
             ELSE IF occ THEN old + voxel_logit(inp, e, pose, z, r, c)
                  ELSE old
    IN IF confident_no_obj(inp, e, pose, prev, r, c) /\ ~IsInf(u) THEN -LogOddsMax
       ELSE IF IsInf(u) THEN u ELSE Clamp(u, -LogOddsMax, LogOddsMax)

\* mutant: the override of line 644 left out
updated_no_override(inp, e, pose, prev, z, r, c) ==
    LET old == prev[VOXEL_START + z][r][c]
        occ == is_occupaid(inp, e, pose, z, r, c)
        u == IF occ /\ IsInf(old) THEN voxel_logit(inp, e, pose, z, r, c)
             ELSE IF occ THEN old + voxel_logit(inp, e, pose, z, r, c) - prior_logit
                  ELSE old
    IN IF IsInf(u) THEN u ELSE Clamp(u, -LogOddsMax, LogOddsMax)

updated(inp, e, pose, prev, z, r, c) ==
    LET old == prev[VOXEL_START + z][r][c]
        occ == is_occupaid(inp, e, pose, z, r, c)
        is_pre_empty == IsInf(old)
        need_assign_logit == occ /\ is_pre_empty
        need_addition_logit == occ /\ ~is_pre_empty
        u == IF need_assign_logit THEN voxel_logit(inp, e, pose, z, r, c)
             ELSE IF need_addition_logit
                  THEN old + voxel_logit(inp, e, pose, z, r, c) - prior_logit
                  ELSE old
        is_post_occupaid == ~IsInf(u)
        clamped == IF is_post_occupaid THEN Clamp(u, -LogOddsMax, LogOddsMax) ELSE u
    IN IF confident_no_obj(inp, e, pose, prev, r, c) /\ is_post_occupaid
       THEN -LogOddsMax ELSE clamped

\* ------------------------------------------------------------ current location
\* the indices a Python slice lo:hi selects from a dimension of n entries
PySlice(lo, hi, n) ==
    LET norm(i) == IF i < 0 THEN Max2(i + n, 0) ELSE Min2(i, n)
    IN {i \in 0 .. (n - 1) : norm(lo) <= i /\ i < norm(hi)}

\* the channels of the slice CURRENT_LOCATION : CURRENT_LOCATION + 2
LocChans == PySlice(CURRENT_LOCATION, CURRENT_LOCATION + 2, Cardinality(Chans))

\* curr_loc = <<x, y>>: rows y - 2 : y + 3, columns x - 2 : x + 3
InLocSquare(pose, r, c) ==
    /\ r \in PySlice(pose[2] - LocRadius, pose[2] + LocRadius + 1, local_map_size)
    /\ c \in PySlice(pose[1] - LocRadius, pose[1] + LocRadius + 1, local_map_size)

\* one cell of current_map before the current location is reset and marked
fused_cell(inp, e, pose, prev, ch, r, c) ==
    CASE ch = PROBABILITY_MAP -> prob_fused(inp, e, pose, prev, r, c)
      [] ch \in VoxChans -> updated(inp, e, pose, prev, ch - VOXEL_START, r, c)
      [] OTHER -> max_fused(inp, e, pose, prev, ch, r, c)

\* the number 1.0 in the fixed point of channel ch: tenths in the [0,1] channels,
\* hundredths in the log-odds channels
OneIn(ch) == IF ch \in idx_no_prob THEN Unit ELSE LogOddsMax \div 10

\* one cell of the returned current_map
current_cell(inp, e, pose, prev, ch, r, c) ==
    IF ch \in LocChans /\ InLocSquare(pose, r, c) THEN OneIn(ch)
    ELSE IF ch = CURRENT_LOCATION THEN 0
    ELSE fused_cell(inp, e, pose, prev, ch, r, c)

current_map(inp, e, pose, prev) ==
    [ch \in Chans |-> [r \in Rows |-> [c \in Rows |->
        current_cell(inp, e, pose, prev, ch, r, c)]]]

\* ------------------------------------------------------------ instance extractor
ins_mask(inp, pose, j) == {rc \in Cells : instances_st(inp, 0, pose, j, rc[1], rc[2]) # 0}

MinOf(S) == CHOOSE x \in S : \A y \in S : x <= y
MaxOf(S) == CHOOSE x \in S : \A y \in S : x >= y

\* bb = <<x1, x2, y1, y2>> + lmb[0][[0, 0, 2, 2]]; center2 is twice the center, so
\* that the halves of (x1 + x2) / 2 and (y1 + y2) / 2 stay whole numbers
ins_obj(inp, pose, j) ==
    LET m == ins_mask(inp, pose, j)
        x1 == MinOf({rc[1] : rc \in m})
        x2 == MaxOf({rc[1] : rc \in m})
        y1 == MinOf({rc[2] : rc \in m})
        y2 == MaxOf({rc[2] : rc \in m})
        l == inp.lmb[0]
    IN [bb |-> <<x1 + l[1], x2 + l[1], y1 + l[3], y2 + l[3]>>,
        center2 |-> <<x1 + x2 + 2 * l[1], y1 + y2 + 2 * l[3]>>,
        score |-> detected_instances_scores(inp, j),
        class |-> detected_instances_classes(inp, j)]

\* the records of class k among the first n confirmed detections, in their order
RECURSIVE ins_list(_, _, _, _)
ins_list(inp, pose, k, n) ==
    IF n = 0 THEN <<>>
    ELSE LET j == n - 1
             rest == ins_list(inp, pose, k, j)
         IN IF ins_mask(inp, pose, j) # {} /\ detected_instances_classes(inp, j) = k
            THEN Append(rest, ins_obj(inp, pose, j)) ELSE rest

NoDict == [k \in Classes |-> <<>>]

\* instances_dict: None unless a detection is confirmed
instances_dict(inp, pose) ==
    IF num_detected_instance(inp) > 0
    THEN [none |-> FALSE,
          dict |-> [k \in Classes |-> ins_list(inp, pose, k, num_detected_instance(inp))]]
    ELSE [none |-> TRUE, dict |-> NoDict]

\* ------------------------------------------------------------ forward
\* what forward(obs, pose_delta, camera_pose, prev_map, prev_pose, detection_results,
\* lmb) returns, or that it raised
forward(inp, prev_map, prev_pose) ==
    IF Raises(inp)
    THEN [raised |-> TRUE, map |-> prev_map, pose |-> prev_pose,
          instances |-> [none |-> TRUE, dict |-> NoDict]]
    ELSE LET pose == [e \in Batch(inp) |-> get_new_pose(prev_pose[e], inp.pose_delta[e])]
         IN [raised |-> FALSE,
             map |-> [e \in Batch(inp) |-> current_map(inp, e, pose[e], prev_map[e])],
             pose |-> pose,
             instances |-> instances_dict(inp, pose[0])]

\* ------------------------------------------------------------ bounded inputs
\* The voxels <<row, col, bin>> a pixel's point lands in.  Near: row 0, straight
\* ahead, inside the close range.  Far: row 3, beyond the close range and beyond
\* the square marked around the agent.  Low: far, in the ground bin.  High: far,
\* above max_mapped_height.  Side: row 1, two columns to the side.  Ahead: row 1,
\* straight ahead.
Near == <<0, 2, 1>>
Far == <<3, 2, 1>>
Low == <<3, 2, 0>>
High == <<3, 2, 2>>
Side == <<1, 0, 1>>
Ahead == <<1, 2, 1>>

\* pixel 0 scores 1.0 for class 0, pixel 1 scores 0.6 for class 1, pixel 2 nothing
PixelSem == [p \in Pixels |-> [k \in Classes |->
                IF p = 0 /\ k = 0 THEN Unit ELSE IF p = 1 /\ k = 1 THEN 6 ELSE 0]]

Frame(v0, v1, v2) ==
    [vox |-> [p \in Pixels |-> IF p = 0 THEN v0 ELSE IF p = 1 THEN v1 ELSE v2],
     sem |-> PixelSem,
     depth |-> [p \in Pixels |-> 3],
     dtype |-> "float32"]

\* pixels 0 and 1 return nothing within max_depth; dt is the dtype of the obs tensor
DeepFrame(dt) ==
    [Frame(Far, Far, Far) EXCEPT !.depth = [p \in Pixels |-> IF p = 2 THEN 3 ELSE 8],
                                 !.dtype = dt]

\* pose_delta = <<dx, dy>> in cells: stay, or one cell forward
Moves == {<<0, 0>>, <<1, 0>>}

Relevance == [k \in Classes |-> IF k = 0 THEN Unit ELSE 5]

\* detections: class, score, mask (the pixels of the mask)
DetA == [class |-> 0, score |-> 8, mask |-> {0}]
DetA2 == [class |-> 0, score |-> 6, mask |-> {0, 1}]
DetB == [class |-> 1, score |-> 8, mask |-> {1}]
DetT == [class |-> 0, score |-> 5, mask |-> {0}]
DetZ == [class |-> 0, score |-> 0, mask |-> {0, 1}]
DetW == [class |-> 1, score |-> 10, mask |-> {0, 1, 2}]

NoDetection ==
    [none |-> TRUE, N |-> 0, scores |-> <<>>, classes |-> <<>>, masks |-> <<>>,
     relevance |-> Relevance]

\* ds[e] is the sequence of element e's detections, of one length for the batch
Bundle(B, ds) ==
    [none |-> FALSE, N |-> Len(ds[0]),
     scores |-> [e \in 0 .. (B - 1) |-> [i \in 0 .. (Len(ds[e]) - 1) |-> ds[e][i + 1].score]],
     classes |-> [e \in 0 .. (B - 1) |-> [i \in 0 .. (Len(ds[e]) - 1) |-> ds[e][i + 1].class]],
     masks |-> [e \in 0 .. (B - 1) |-> [i \in 0 .. (Len(ds[e]) - 1) |-> ds[e][i + 1].mask]],
     relevance |-> Relevance]

One(x) == [e \in {0} |-> x]

\* lmb[e] = <<row origin, row end, column origin, column end>> of the local window
LMB == [e \in {0, 1} |-> IF e = 0 THEN <<10, 18, 20, 28>> ELSE <<30, 38, 40, 48>>]

Input1(f, mv, det) ==
    [B |-> 1, obs |-> One(f), pose_delta |-> One(mv), det |-> det, lmb |-> One(LMB[0])]

Empty(B) == Bundle(B, [e \in 0 .. (B - 1) |-> <<>>])
Stay == <<0, 0>>

\* what the agent sees, with no detection in the bundle
GeoInputs ==
    {Input1(f, mv, Empty(1)) :
        f \in {Frame(Near, Near, Far), Frame(Far, Far, Low)}, mv \in Moves}

\* one place seen, with and without detections there
DetInputs ==
    {Input1(Frame(Far, Far, Low), Stay, d) :
        d \in {NoDetection} \cup {Bundle(1, One(ds)) :
                 ds \in {<<DetA>>, <<DetZ>>, <<DetT>>, <<DetA, DetA2>>}}}
    \cup {Input1(Frame(Near, Near, Far), Stay, Bundle(1, One(<<DetA>>)))}

\* detections on several places
InstInputs ==
    {Input1(f, Stay, Bundle(1, One(ds))) :
        f \in {Frame(Near, Side, Far), Frame(Far, Low, High)},
        ds \in {<<DetA, DetB>>, <<DetT, DetW>>}}
    \cup {Input1(Frame(Near, Far, Far), <<1, 0>>, Bundle(1, One(<<DetA, DetB>>)))}

\* the agent ends within two cells of the low border of the map
BorderInputs ==
    {Input1(Frame(Far, Far, Low), mv, Empty(1)) : mv \in {<<-3, 0>>, <<0, 3>>}}

\* depth beyond max_depth, in a float32 and in a float64 obs
DeepInputs ==
    {Input1(DeepFrame("float32"), <<1, 0>>, Empty(1)),
     Input1(DeepFrame("float64"), Stay, Empty(1))}

\* one detected point just ahead, and two points to the side in the first rows
CloseInputs ==
    {Input1(Frame(Ahead, Far, Low), Stay, Bundle(1, One(<<DetA>>))),
     Input1(Frame(Side, Side, Far), Stay, Empty(1))}

Inputs1 ==
    GeoInputs \cup DetInputs \cup InstInputs \cup BorderInputs \cup DeepInputs
        \cup CloseInputs

\* two agents in one call: each its own frame, move, detections and window
Input2(f0, f1, mv0, mv1, det) ==
    [B |-> 2,
     obs |-> [e \in {0, 1} |-> IF e = 0 THEN f0 ELSE f1],
     pose_delta |-> [e \in {0, 1} |-> IF e = 0 THEN mv0 ELSE mv1],
     det |-> det,
     lmb |-> LMB]

Two(x, y) == [e \in {0, 1} |-> IF e = 0 THEN x ELSE y]

FramePairs ==
    {<<Frame(Near, Side, Far), Frame(Far, Low, High)>>,
     <<Frame(Far, Low, High), Frame(Near, Side, Far)>>}

Inputs2 ==
    {Input2(fp[1], fp[2], mv, Stay, d) :
        fp \in FramePairs, mv \in Moves,
        d \in {Empty(2),
               Bundle(2, Two(<<DetA, DetB>>, <<DetT, DetW>>)),
               Bundle(2, Two(<<DetT, DetW>>, <<DetA, DetB>>))}}
    \cup {Input2(Frame(Near, Side, Far), Frame(Far, Low, High), Stay, Stay, NoDetection)}

\* element e of a batch, as the input of a call of its own with batch size 1
Single(inp, e) ==
    [B |-> 1,
     obs |-> One(inp.obs[e]),
     pose_delta |-> One(inp.pose_delta[e]),
     det |-> IF inp.det.none THEN inp.det
             ELSE [none |-> FALSE, N |-> inp.det.N,
                   scores |-> One(inp.det.scores[e]),
                   classes |-> One(inp.det.classes[e]),
                   masks |-> One(inp.det.masks[e]),
                   relevance |-> inp.det.relevance],
     lmb |-> One(inp.lmb[e])]

\* ------------------------------------------------------------ the caller's maps
\* a map with the same channel values in every cell; vox[z] for the voxel bins
UniformMap(obst, expl, close, loc, prob, vox, sem) ==
    [ch \in Chans |-> [r \in Rows |-> [c \in Rows |->
        CASE ch = OBSTACLE_MAP -> obst
          [] ch = EXPLORED_MAP -> expl
          [] ch = BEEN_CLOSE_MAP -> close
          [] ch = CURRENT_LOCATION -> loc
          [] ch = PROBABILITY_MAP -> prob
          [] ch \in VoxChans -> vox[ch - VOXEL_START + 1]
          [] OTHER -> sem[ch - NON_SEM_CHANNELS + 1]]]]

\* fresh: nothing observed, every voxel cell unassigned.  wild: any finite values,
\* outside the ranges a fused map has.
StartMap(kind) ==
    IF kind = "fresh" THEN UniformMap(0, 0, 0, 0, 0, <<Inf, Inf>>, <<0, 0>>)
    ELSE UniformMap(15, -5, 12, 7, 2500, <<-3000, 4000>>, <<20, -1>>)

StartKinds == {"fresh", "wild"}
StartPose == <<local_map_size \div 2, local_map_size \div 2>>

\* ------------------------------------------------------------ state machine
VARIABLES
    start,       \* the kind of map the caller started from
    local_map,   \* local_map[e]: the caller's running local map of element e
    local_pose,  \* local_pose[e] = <<x, y>>
    step,        \* the number of forward() calls made
    last,        \* the last call: its inputs and what it returned
    seen         \* history: seen[e] holds <<z, r, c>> once a call found it occupied

vars == <<start, local_map, local_pose, step, last, seen>>

NoCall == [called |-> FALSE, raised |-> FALSE]

InitFor(B) ==
    /\ start \in StartKinds
    /\ local_map = [e \in 0 .. (B - 1) |-> StartMap(start)]
    /\ local_pose = [e \in 0 .. (B - 1) |-> StartPose]
    /\ step = 0
    /\ last = NoCall
    /\ seen = [e \in 0 .. (B - 1) |-> {}]

PoseOnMap(inp) ==
    \A e \in Batch(inp) :
        LET q == get_new_pose(local_pose[e], inp.pose_delta[e])
        IN q[1] \in Rows /\ q[2] \in Rows

OccupiedNow(inp, e, pose) ==
    {v \in MappedBins \X Rows \X Rows : is_occupaid(inp, e, pose, v[1], v[2], v[3])}

\* one forward() call; the caller feeds the returned map and pose back
Call(inp) ==
    /\ step < MaxSteps
    /\ PoseOnMap(inp)
    /\ LET out == forward(inp, local_map, local_pose)
       IN /\ last' = [called |-> TRUE, inp |-> inp, prev_map |-> local_map,
                      prev_pose |-> local_pose, raised |-> out.raised,
                      obs_after |-> [e \in Batch(inp) |-> obs_after(inp, e)],
                      instances |-> out.instances]
          /\ local_map' = out.map
          /\ local_pose' = out.pose
          /\ seen' = IF out.raised THEN seen
                     ELSE [e \in Batch(inp) |-> seen[e] \cup OccupiedNow(inp, e, out.pose[e])]
    /\ step' = step + 1
    /\ UNCHANGED start

Init == InitFor(1)
Step == \E inp \in Inputs1 : Call(inp)
Next == Step
Spec == Init /\ [][Next]_vars

\* the same caller with two agents in every call
InitBatch == InitFor(2)
StepBatch == \E inp \in Inputs2 : Call(inp)
NextBatch == StepBatch
SpecBatch == InitBatch /\ [][NextBatch]_vars

\* ------------------------------------------------------------ properties
\* the last call returned a map
Returned == last.called /\ ~last.raised

\* C1: once a cell's been-close channel is 1 in a fused map, its object-probability
\* channel is exactly -10 in that map and in every later one.  Max-fusion keeps a
\* been-close value of 1, so this is: in every map a call has returned, a cell with
\* been-close 1 has probability -10.
C1_BeenCloseOverride ==
    step > 0 =>
        \A e \in DOMAIN local_map : \A r \in Rows : \A c \in Rows :
            local_map[e][BEEN_CLOSE_MAP][r][c] = Unit
                => local_map[e][PROBABILITY_MAP][r][c] = -LogOddsMax

\* C2: after every forward() call the object-probability channel lies in [-10, 10]
\* and every voxel-occupancy value that is not the unassigned sentinel lies in
\* [-10, 10], for any previous map and any observation.
InLogOddsRange(v) == -LogOddsMax <= v /\ v <= LogOddsMax

C2_LogOddsBounded ==
    Returned =>
        \A e \in DOMAIN local_map : \A r \in Rows : \A c \in Rows :
            /\ InLogOddsRange(local_map[e][PROBABILITY_MAP][r][c])
            /\ \A ch \in VoxChans :
                   IsInf(local_map[e][ch][r][c]) \/ InLogOddsRange(local_map[e][ch][r][c])

\* a call on a map whose log-odds were out of range: a probability cell and a voxel
\* cell above 10 came back as 10, and an occupied voxel cell below -10 came back as -10
C2_Witness ==
    /\ Returned
    /\ \E r \in Rows : \E c \in Rows :
        /\ last.prev_map[0][PROBABILITY_MAP][r][c] > LogOddsMax
        /\ local_map[0][PROBABILITY_MAP][r][c] = LogOddsMax
    /\ \E r \in Rows : \E c \in Rows : \E ch \in VoxChans :
        /\ last.prev_map[0][ch][r][c] > LogOddsMax
        /\ local_map[0][ch][r][c] = LogOddsMax
    /\ \E r \in Rows : \E c \in Rows : \E ch \in VoxChans :
        /\ last.prev_map[0][ch][r][c] < -LogOddsMax
        /\ is_occupaid(last.inp, 0, local_pose[0], ch - VOXEL_START, r, c)
        /\ local_map[0][ch][r][c] = -LogOddsMax

\* C3: in the map a forward() call returns, every obstacle, explored, been-close and
\* per-category value is at least the value of the same cell in prev_map.
MaxChans == {OBSTACLE_MAP, EXPLORED_MAP, BEEN_CLOSE_MAP} \cup SemChans

C3_Monotone ==
    Returned =>
        \A e \in DOMAIN local_map : \A ch \in MaxChans : \A r \in Rows : \A c \in Rows :
            local_map[e][ch][r][c] >= last.prev_map[e][ch][r][c]

\* a call that raised one cell's evidence and, in another cell, brought less evidence
\* than the map already held
C3_Witness ==
    /\ Returned
    /\ \E ch \in MaxChans : \E r \in Rows : \E c \in Rows :
        local_map[0][ch][r][c] > last.prev_map[0][ch][r][c]
    /\ \E ch \in MaxChans : \E r \in Rows : \E c \in Rows :
        /\ translated(last.inp, 0, local_pose[0], ch, r, c) > 0
        /\ translated(last.inp, 0, local_pose[0], ch, r, c) < last.prev_map[0][ch][r][c]
        /\ local_map[0][ch][r][c] = last.prev_map[0][ch][r][c]

\* C4: a voxel cell that starts at the unassigned sentinel and is occupied in no step
\* of a sequence of calls still holds the sentinel, also in a column whose
\* been-close flag is 1.
C4_SentinelPreserved ==
    start = "fresh" =>
        \A e \in DOMAIN local_map : \A z \in MappedBins : \A r \in Rows : \A c \in Rows :
            <<z, r, c>> \notin seen[e] => IsInf(local_map[e][VOXEL_START + z][r][c])

\* after two calls a been-close column holds one voxel cell that was occupied and
\* assigned and one that never was and still is unassigned
C4_Witness ==
    /\ start = "fresh" /\ step >= 2 /\ Returned
    /\ \E r \in Rows : \E c \in Rows : \E z \in MappedBins : \E y \in MappedBins :
        /\ local_map[0][BEEN_CLOSE_MAP][r][c] = Unit
        /\ <<z, r, c>> \in seen[0] /\ ~IsInf(local_map[0][VOXEL_START + z][r][c])
        /\ <<y, r, c>> \notin seen[0] /\ IsInf(local_map[0][VOXEL_START + y][r][c])

\* the voxel cell <<z, r, c>> of element e was unassigned before the last call and
\* occupied in it
FirstObserved(e, z, r, c) ==
    /\ IsInf(last.prev_map[e][VOXEL_START + z][r][c])
    /\ is_occupaid(last.inp, e, local_pose[e], z, r, c)

\* C5 as claimed: in the first step in which an unassigned voxel cell is occupied its
\* value becomes the logit of that step's warped voxel evidence minus the prior logit.
C5_FirstObservationPriorRelative ==
    Returned =>
        \A e \in DOMAIN local_map : \A z \in MappedBins : \A r \in Rows : \A c \in Rows :
            FirstObserved(e, z, r, c) =>
                local_map[e][VOXEL_START + z][r][c]
                    = voxel_logit(last.inp, e, local_pose[e], z, r, c) - prior_logit

\* C5 as amended: in the first step in which an unassigned voxel cell is occupied its
\* value becomes the logit of that step's warped voxel evidence clamped to [-10, 10],
\* with no prior subtracted, or -10 in a column whose fused been-close flag is 1.
C5_FirstObservation ==
    Returned =>
        \A e \in DOMAIN local_map : \A z \in MappedBins : \A r \in Rows : \A c \in Rows :
            FirstObserved(e, z, r, c) =>
                local_map[e][VOXEL_START + z][r][c]
                    = IF local_map[e][BEEN_CLOSE_MAP][r][c] = Unit THEN -LogOddsMax
                      ELSE Clamp(voxel_logit(last.inp, e, local_pose[e], z, r, c),
                                 -LogOddsMax, LogOddsMax)

\* one call assigned a first-observed cell its logit (not the prior-relative one) and
\* clamped the logit of another
C5_Witness ==
    /\ Returned
    /\ \E z \in MappedBins : \E r \in Rows : \E c \in Rows :
        /\ FirstObserved(0, z, r, c)
        /\ local_map[0][BEEN_CLOSE_MAP][r][c] # Unit
        /\ local_map[0][VOXEL_START + z][r][c] = voxel_logit(last.inp, 0, local_pose[0], z, r, c)
        /\ InLogOddsRange(voxel_logit(last.inp, 0, local_pose[0], z, r, c) - prior_logit)
    /\ \E z \in MappedBins : \E r \in Rows : \E c \in Rows :
        /\ FirstObserved(0, z, r, c)
        /\ voxel_logit(last.inp, 0, local_pose[0], z, r, c) < -LogOddsMax
        /\ local_map[0][VOXEL_START + z][r][c] = -LogOddsMax

\* the same call with detections whose confidences are all zero
ZeroConfidence(inp) ==
    [inp EXCEPT !.det = Bundle(inp.B, [e \in Batch(inp) |-> <<DetZ>>])]

\* C6: forward() with detection_results = None completes without raising and
\* returns the map, pose and instances of the same call made with zero-confidence
\* detections.
C6_NoDetectionIsNormal ==
    (last.called /\ last.inp.det.none) =>
        LET zero == forward(ZeroConfidence(last.inp), last.prev_map, last.prev_pose)
        IN /\ ~last.raised
           /\ local_map = zero.map
           /\ local_pose = zero.pose
           /\ last.instances = zero.instances

\* C7: the instance output of forward() is always a dictionary with one list per
\* class id, every list empty when the step has no confirmed detection.
C7_InstanceDictAlways ==
    Returned =>
        /\ ~last.instances.none
        /\ DOMAIN last.instances.dict = Classes
        /\ num_detected_instance(last.inp) = 0 =>
               \A k \in Classes : last.instances.dict[k] = <<>>

\* the map cells the points of detection i's mask fall on: a point in the voxel
\* <<row, col, z>> of a bin between filtered_min_height and max_mapped_height falls
\* on the cell of its egocentric column, moved with the agent's pose
MaskCells(inp, pose, i) ==
    {rc \in Cells :
        \E p \in inp.det.masks[0][i] :
            LET v == point(inp, 0, p)
            IN /\ v[3] \in FilteredBins
               /\ v[1] \in Ego /\ v[2] \in Ego
               /\ rc[1] = v[1] + local_map_size \div 2 + (pose[2] - local_map_size \div 2)
               /\ rc[2] = v[2] + (local_map_size \div 2 - vision_range \div 2)
                              + (pose[1] - local_map_size \div 2)}

\* the detections that are to have a record in class k
Recorded(inp, pose, k) ==
    {i \in Dets(inp) :
        /\ inp.det.scores[0][i] > confirm_detection_threashold
        /\ inp.det.classes[0][i] = k
        /\ MaskCells(inp, pose, i) # {}}

\* record rec is the record of detection i
RecordOf(inp, pose, rec, i) ==
    LET m == MaskCells(inp, pose, i)
    IN /\ rec.score = inp.det.scores[0][i]
       /\ rec.class = inp.det.classes[0][i]
       /\ \A rc \in m : /\ rec.bb[1] - inp.lmb[0][1] <= rc[1]
                        /\ rc[1] <= rec.bb[2] - inp.lmb[0][1]
                        /\ rec.bb[3] - inp.lmb[0][3] <= rc[2]
                        /\ rc[2] <= rec.bb[4] - inp.lmb[0][3]
       /\ \E rc \in m : rc[1] = rec.bb[1] - inp.lmb[0][1]
       /\ \E rc \in m : rc[1] = rec.bb[2] - inp.lmb[0][1]
       /\ \E rc \in m : rc[2] = rec.bb[3] - inp.lmb[0][3]
       /\ \E rc \in m : rc[2] = rec.bb[4] - inp.lmb[0][3]

\* C8: for a single-agent call the instance dictionary holds exactly one record for
\* each detection whose confidence exceeds the confirm threshold and whose warped
\* mask is not empty, and none for the others; the record is filed under its class,
\* carries the detection's score, and its box is the row and column extent of the
\* warped mask, the rows offset by lmb[0][0] and the columns by lmb[0][2].
C8_InstanceGrouping ==
    (Returned /\ last.inp.B = 1 /\ ~last.instances.none) =>
        \A k \in Classes :
            LET recs == last.instances.dict[k]
                want == Ascending(Recorded(last.inp, local_pose[0], k))
            IN /\ Len(recs) = Len(want)
               /\ \A n \in 1 .. Len(recs) :
                      RecordOf(last.inp, local_pose[0], recs[n], want[n])

\* a call with a confirmed detection that has a record whose box spans several rows
\* and columns, and a detection at the threshold that has none
C8_Witness ==
    /\ Returned /\ last.inp.B = 1 /\ ~last.instances.none
    /\ \E i \in Dets(last.inp) : last.inp.det.scores[0][i] = confirm_detection_threashold
    /\ \E k \in Classes : \E n \in DOMAIN last.instances.dict[k] :
          LET bb == last.instances.dict[k][n].bb
          IN bb[1] < bb[2] /\ bb[3] < bb[4]
    /\ \A k \in Classes : Len(last.instances.dict[k]) <= 1

\* a call with a confirmed detection whose warped mask is empty, so that it has no
\* record
C8_WitnessEmptyMask ==
    /\ Returned /\ last.inp.B = 1 /\ ~last.instances.none
    /\ \E i \in detect_idx(last.inp) : MaskCells(last.inp, local_pose[0], i) = {}

\* C10: starting from a map whose obstacle, explored, been-close and per-category
\* channels are in [0, 1], these channels are in [0, 1] in every map a call returns.
C10_RangeInvariant ==
    start = "fresh" =>
        \A e \in DOMAIN local_map : \A ch \in MaxChans : \A r \in Rows : \A c \in Rows :
            0 <= local_map[e][ch][r][c] /\ local_map[e][ch][r][c] <= Unit

\* a call whose warped explored evidence exceeded 1 in a cell that holds 1, and that
\* left a per-category value strictly between 0 and 1
C10_Witness ==
    /\ start = "fresh" /\ Returned
    /\ \E r \in Rows : \E c \in Rows :
        /\ warped(last.inp, 0, local_pose[0], EXPLORED_MAP, r, c) > Unit
        /\ local_map[0][EXPLORED_MAP][r][c] = Unit
    /\ \E ch \in SemChans : \E r \in Rows : \E c \in Rows :
        0 < local_map[0][ch][r][c] /\ local_map[0][ch][r][c] < Unit

\* what a call of its own, with batch size 1, returns for element e of the last call
Alone(e) ==
    forward(Single(last.inp, e), One(last.prev_map[e]), One(last.prev_pose[e]))

SameMapAndPose(e) ==
    /\ Alone(e).raised = last.raised
    /\ ~last.raised => /\ local_map[e] = Alone(e).map[0]
                       /\ local_pose[e] = Alone(e).pose[0]

\* C9 as stated: for each agent of a batch of 2 the map, the pose and the instance
\* records are those of a call with that agent alone.
C9_BatchIndependenceAll ==
    last.called =>
        \A e \in Batch(last.inp) :
            SameMapAndPose(e) /\ last.instances = Alone(e).instances

\* C9 amended: for each agent of a batch of 2 the map and the pose are those of a
\* call with that agent alone, and the call raises exactly when the calls alone do;
\* the one instance output of the call is that of agent 0 alone.
C9_BatchIndependence ==
    last.called =>
        /\ \A e \in Batch(last.inp) : SameMapAndPose(e)
        /\ last.instances = Alone(0).instances

\* a batch of 2 returned and agent 1's detections, unlike agent 0's, bring a
\* confirmed instance with probability evidence in agent 1's map
C9_Witness ==
    /\ Returned
    /\ last.inp.B = 2
    /\ last.inp.det.scores[0] # last.inp.det.scores[1]
    /\ ~last.instances.none
    /\ ~Alone(1).instances.none
    /\ Alone(1).instances # last.instances
    /\ \E r \in Rows, c \in Rows :
          local_map[1][PROBABILITY_MAP][r][c] # local_map[0][PROBABILITY_MAP][r][c]

\* the square of half-width LocRadius around the cell of pose, clipped to the map
SquareAround(pose, r, c) ==
    /\ pose[2] - LocRadius <= r /\ r <= pose[2] + LocRadius
    /\ pose[1] - LocRadius <= c /\ c <= pose[1] + LocRadius

\* C11: after every call the current-location channel is 1 exactly on the square of
\* half-width 2 around the cell of the updated pose, clipped to the map, and 0
\* elsewhere, also for poses within 2 cells of the border of the map.
C11_CurrentLocationSquare ==
    Returned =>
        \A e \in DOMAIN local_map : \A r \in Rows : \A c \in Rows :
            local_map[e][CURRENT_LOCATION][r][c]
                = IF SquareAround(local_pose[e], r, c) THEN Unit ELSE 0

\* C12: a call changes none of the caller's input buffers: the obs buffer after the
\* call holds what it held before.
C12_Purity ==
    last.called =>
        \A e \in Batch(last.inp) : last.obs_after[e] = last.inp.obs[e]

\* the voxel cell <<z, r, c>> of element e was occupied in the last call
Occupied(e, z, r, c) == is_occupaid(last.inp, e, local_pose[e], z, r, c)

\* C13: a voxel cell that is not occupied this step has, in the returned map, exactly
\* the value it had in prev_map (the sentinel, or an assigned log-odds within
\* [-10, 10]), whatever the been-close flag of its column.
C13_VoxelCarriedForward ==
    Returned =>
        \A e \in DOMAIN local_map : \A z \in MappedBins : \A r \in Rows : \A c \in Rows :
            LET old == last.prev_map[e][VOXEL_START + z][r][c]
            IN (~Occupied(e, z, r, c) /\ (IsInf(old) \/ InLogOddsRange(old)))
                   => local_map[e][VOXEL_START + z][r][c] = old

\* C14: a voxel cell that is occupied this step and was assigned in prev_map, in a
\* column whose been-close flag is not 1, gets
\* clamp(previous value + this step's voxel logit - prior logit, -10, 10).
C14_VoxelAccumulate ==
    Returned =>
        \A e \in DOMAIN local_map : \A z \in MappedBins : \A r \in Rows : \A c \in Rows :
            LET old == last.prev_map[e][VOXEL_START + z][r][c]
            IN (/\ Occupied(e, z, r, c)
                /\ ~IsInf(old)
                /\ local_map[e][BEEN_CLOSE_MAP][r][c] # Unit)
                   => local_map[e][VOXEL_START + z][r][c]
                          = Clamp(old + voxel_logit(last.inp, e, local_pose[e], z, r, c)
                                      - prior_logit,
                                  -LogOddsMax, LogOddsMax)

\* a cell assigned by an earlier call was occupied again and moved by the
\* prior-relative logit, inside the range; another one was clamped
C14_Witness ==
    /\ Returned
    /\ \E z \in MappedBins : \E r \in Rows : \E c \in Rows :
        LET old == last.prev_map[0][VOXEL_START + z][r][c]
            new == old + voxel_logit(last.inp, 0, local_pose[0], z, r, c) - prior_logit
        IN /\ Occupied(0, z, r, c) /\ ~IsInf(old) /\ InLogOddsRange(old)
           /\ local_map[0][BEEN_CLOSE_MAP][r][c] # Unit
           /\ -LogOddsMax < new /\ new < LogOddsMax /\ new # old
           /\ local_map[0][VOXEL_START + z][r][c] = new
    /\ \E z \in MappedBins : \E r \in Rows : \E c \in Rows :
        LET old == last.prev_map[0][VOXEL_START + z][r][c]
        IN /\ Occupied(0, z, r, c) /\ ~IsInf(old)
           /\ local_map[0][BEEN_CLOSE_MAP][r][c] # Unit
           /\ old + voxel_logit(last.inp, 0, local_pose[0], z, r, c) - prior_logit > LogOddsMax
           /\ local_map[0][VOXEL_START + z][r][c] = LogOddsMax

\* C15: after every call, every voxel cell that is occupied this step and lies in a
\* column whose fused been-close flag is 1 has the value -10.
C15_VoxelOverride ==
    Returned =>
        \A e \in DOMAIN local_map : \A z \in MappedBins : \A r \in Rows : \A c \in Rows :
            (Occupied(e, z, r, c) /\ local_map[e][BEEN_CLOSE_MAP][r][c] = Unit)
                => local_map[e][VOXEL_START + z][r][c] = -LogOddsMax

\* in a been-close column an occupied cell whose first-observation logit is above -10,
\* and one whose accumulated value is above -10, hold -10
C15_Witness ==
    /\ Returned
    /\ \E z \in MappedBins : \E r \in Rows : \E c \in Rows :
        /\ FirstObserved(0, z, r, c)
        /\ local_map[0][BEEN_CLOSE_MAP][r][c] = Unit
        /\ voxel_logit(last.inp, 0, local_pose[0], z, r, c) > -LogOddsMax
        /\ local_map[0][VOXEL_START + z][r][c] = -LogOddsMax

\* this step's log-odds at the map cell <<r, c>>: 0 where the step brings no explored
\* evidence
CurrentLogOdds(e, r, c) ==
    IF warped(last.inp, e, local_pose[e], EXPLORED_MAP, r, c) = 0 THEN 0
    ELSE warped(last.inp, e, local_pose[e], PROBABILITY_MAP, r, c)

\* C16: a map cell whose been-close flag is not 1 gets
\* clamp(previous + current log-odds, -10, 10) in the object-probability channel,
\* where the current log-odds are 0 for a cell with no explored evidence this step:
\* such a cell keeps its previous value, clamped.
C16_NoInformationOutsideExplored ==
    Returned =>
        \A e \in DOMAIN local_map : \A r \in Rows : \A c \in Rows :
            local_map[e][BEEN_CLOSE_MAP][r][c] # Unit
                => local_map[e][PROBABILITY_MAP][r][c]
                       = Clamp(last.prev_map[e][PROBABILITY_MAP][r][c]
                                   + CurrentLogOdds(e, r, c),
                               -LogOddsMax, LogOddsMax)

\* C17: a cell's been-close flag becomes 1 in a call only if the cell is within the
\* close range of the agent's cell, in any direction.
C17_CloseRangeGate ==
    Returned =>
        \A e \in DOMAIN local_map : \A r \in Rows : \A c \in Rows :
            (/\ local_map[e][BEEN_CLOSE_MAP][r][c] = Unit
             /\ last.prev_map[e][BEEN_CLOSE_MAP][r][c] # Unit)
                => (r - local_pose[e][2]) * (r - local_pose[e][2])
                       + (c - local_pose[e][1]) * (c - local_pose[e][1])
                           <= close_range * close_range

\* C18: the center of every instance record is the centroid (mean row, mean column)
\* of the cells of the instance's warped mask, plus the origin of the local window.
\* center2 is twice the center; both sides are multiplied by the number of cells.
C18_InstanceCentroid ==
    (Returned /\ last.inp.B = 1 /\ ~last.instances.none) =>
        \A k \in Classes :
            LET recs == last.instances.dict[k]
                want == Ascending(Recorded(last.inp, local_pose[0], k))
            IN \A n \in 1 .. Min2(Len(recs), Len(want)) :
                   LET m == MaskCells(last.inp, local_pose[0], want[n])
                       size == Cardinality(m)
                   IN /\ recs[n].center2[1] * size
                             = 2 * (SumOver(m, [rc \in Cells |-> rc[1]])
                                        + size * last.inp.lmb[0][1])
                      /\ recs[n].center2[2] * size
                             = 2 * (SumOver(m, [rc \in Cells |-> rc[2]])
                                        + size * last.inp.lmb[0][3])

\* C19: the reset and marking of the current location writes the current-location
\* channel only: every other channel of the returned map holds the value its fusion
\* rule produced, also in the square around the agent.
C19_LocationMarkingFrame ==
    Returned =>
        \A e \in DOMAIN local_map : \A ch \in Chans \ {CURRENT_LOCATION} :
            \A r \in Rows : \A c \in Rows :
                local_map[e][ch][r][c]
                    = fused_cell(last.inp, e, local_pose[e], last.prev_map[e], ch, r, c)
====
